---- MODULE Spec2Model ----
(***************************************************************************)
(* NetAppBlockStorageCmodeLibrary (cinder/volume/drivers/netapp/dataontap/ *)
(* block_cmode.py): the SSC catalog cache (ssc_vols), the invalidation set *)
(* (stale_vols), the LUN table and the operations that touch them, run by  *)
(* several caller threads and one background rescan job.                   *)
(*                                                                         *)
(* Each thread has a program counter pc[t] and a frame of locals fr[t].    *)
(* A step is one shared-memory access (or one backend call) of the code;   *)
(* the two @utils.synchronized locks are explicit variables.               *)
(***************************************************************************)
EXTENDS Integers, Sequences, FiniteSets, TLC

VARIABLES
    workload,       \* what the callers and the backend do in this run (fixed)
    phase,          \* "constructed" until do_setup has run, then "ready"
    ssc_vols,       \* self.ssc_vols: None or a catalog dict
    stale_vols,     \* self.stale_vols: set of NetAppVolume identities
    lun_table,      \* self.lun_table: LUN name -> NetAppLun or None
    stats,          \* self._stats: None, or the published dict (its 'pools')
    lock_stale,     \* holder of the 'update_stale' lock
    lock_refresh,   \* holder of the 'refresh_ssc_vols' lock
    job_running,    \* the refresh engine's "a rescan is in flight" flag
    pc,             \* thread -> position in the code
    fr,             \* thread -> locals of the running operation
    pending         \* history: identities marked since a drain last
                    \* handed them out

vars == <<workload, phase, ssc_vols, stale_vols, lun_table, stats, lock_stale,
          lock_refresh, job_running, pc, fr, pending>>

-----------------------------------------------------------------------------
(* Bounds of the model *)

NumPools == 2                   \* Data ONTAP volumes (pools) on the vserver
NumLuns == 2                    \* LUN names the callers use
NumVariants == 2                \* distinct backend reports of one pool
NumReports == 6                 \* reports of pool 1 in the reporting runs

Workers == {"w1", "w2"}         \* caller threads of the volume manager
Bg == "bg"                      \* the Timer thread of the warm-path rescan
Threads == Workers \cup {Bg}
NoThread == "nobody"

OpNames == {"create", "clone", "delete", "stats"}
Pools == 1..NumPools
LunNames == 1..NumLuns
Variants == 1..NumVariants

None == [none |-> TRUE]         \* Python's None (for dict- or object-valued names)
NoVol == 0                      \* Python's None for a pool-name-valued local
vserver == "vs1"                \* self.vserver

-----------------------------------------------------------------------------
(* Pool inventory: ssc_cmode.NetAppVolume and the catalog dict *)

\* NetAppVolume(name, vserver): equality and hash are by id (name, vserver).
NetAppVolume(name, vs) == [name |-> name, vserver |-> vs]

\* One backend report of pool `name`. Sizes are in MiB (a byte count does not
\* fit TLC's integers); variant 1 carries no capability, later ones do.
RawVol(name, v) ==
    [id    |-> NetAppVolume(name, vserver),
     space |-> [size_total_bytes  |-> v * 10240 + (v - 1) * 5,
                size_avl_bytes    |-> v * 5120 + 3,
                thin_provisioned  |-> v >= 2],
     aggr  |-> [raid_type |-> IF v % 2 = 1 THEN "raid_dp" ELSE "raid4",
                disk_type |-> IF v % 2 = 1 THEN "SSD" ELSE "SATA"],
     mirror |-> [mirrored |-> v % 2 = 0],
     sis    |-> [dedup |-> v % 3 = 0, compression |-> v % 3 = 2]]

\* What the backend can report for the whole vserver: each pool absent (0)
\* or present in one of its variants.
Inventories ==
    { {RawVol(p, f[p]) : p \in {q \in Pools : f[q] # 0}} :
        f \in [Pools -> {0} \cup Variants] }

\* get_cluster_ssc that patches the previous result instead of recomputing
\* it: a pool that was mirrored once stays in 'mirrored'.
get_cluster_ssc_KeepsGone(inv) ==
    [all         |-> inv,
     mirrored    |-> {v \in inv : v.mirror.mirrored}
                       \cup {RawVol(NumPools, 2)},
     dedup       |-> {v \in inv : v.sis.dedup},
     compression |-> {v \in inv : v.sis.compression},
     thin        |-> {v \in inv : v.space.thin_provisioned}]

\* ssc_cmode.get_cluster_ssc: the catalog dict built from one full scan.
get_cluster_ssc(inv) ==
    [all         |-> inv,
     mirrored    |-> {v \in inv : v.mirror.mirrored},
     dedup       |-> {v \in inv : v.sis.dedup},
     compression |-> {v \in inv : v.sis.compression},
     thin        |-> {v \in inv : v.space.thin_provisioned}]

Catalogs == {get_cluster_ssc(inv) : inv \in Inventories}

\* The inventory with pools 1..k, pool p reported in variant v, v+1, ...
Inventory(k, v) ==
    {RawVol(p, ((v + p - 2) % NumVariants) + 1) : p \in 1..k}

\* A report of the pool of `vol` with other sizes.
Sized(vol, total, avl) ==
    [vol EXCEPT !.space.size_total_bytes = total, !.space.size_avl_bytes = avl]

\* `vol in s` for a set of NetAppVolume: membership by identity.
VolIn(vol, s) == \E w \in s : w.id = vol.id

-----------------------------------------------------------------------------
(* Stats aggregation helpers (_get_pool_stats, lines 179-216) *)

SizeMultiplierPct == 100        \* netapp_size_multiplier (1.0), in hundredths
GiMiB == 1024                   \* units.Gi, in MiB

\* CapacityGb that rounds to the nearest hundredth.
CapacityGb_Nearest(mib) ==
    (2 * mib * 100 * 100 + workload.size_multiplier * GiMiB)
       \div (2 * workload.size_multiplier * GiMiB)

\* na_utils.round_down(float(bytes) / multiplier / units.Gi, '0.01'),
\* as a count of hundredths of a GB; the multiplier is the configured
\* netapp_size_multiplier of the run.
CapacityGb(mib) ==
    (mib * 100 * 100) \div (workload.size_multiplier * GiMiB)

\* Tag without .lower()
Tag_NoLower(b) == IF b THEN "True" ELSE "False"

\* six.text_type(b).lower()
TextType(b) == IF b THEN "True" ELSE "False"
Lower(s) == CASE s = "True" -> "true" [] s = "False" -> "false" [] OTHER -> s
Tag(b) == Lower(TextType(b))

\* PoolBase that reports the available size as the total size.
PoolBase_AvailableAsTotal(vol) ==
    [pool_name           |-> vol.id.name,
     QoS_support         |-> FALSE,
     reserved_percentage |-> 0,
     total_capacity_gb   |-> CapacityGb(vol.space.size_avl_bytes),
     free_capacity_gb    |-> CapacityGb(vol.space.size_avl_bytes),
     netapp_raid_type    |-> vol.aggr.raid_type,
     netapp_disk_type    |-> vol.aggr.disk_type]

\* Lines 180-197: the part of a pool entry read from the vol object itself.
PoolBase(vol) ==
    [pool_name           |-> vol.id.name,
     QoS_support         |-> FALSE,
     reserved_percentage |-> 0,
     total_capacity_gb   |-> CapacityGb(vol.space.size_total_bytes),
     free_capacity_gb    |-> CapacityGb(vol.space.size_avl_bytes),
     netapp_raid_type    |-> vol.aggr.raid_type,
     netapp_disk_type    |-> vol.aggr.disk_type]

\* Lines 199-214: one capability axis, both polarities.
Axis(e, pos, neg, b) == [k \in DOMAIN e \cup {pos, neg} |->
    IF k = pos THEN Tag(b) ELSE IF k = neg THEN Tag(~b) ELSE e[k]]

\* The entry _get_pool_stats builds for `vol` when every read of
\* self.ssc_vols yields the same catalog `cat`.
PoolEntry(cat, vol) ==
    LET e0 == PoolBase(vol)
        e1 == Axis(e0, "netapp_mirrored", "netapp_unmirrored",
                   VolIn(vol, cat.mirrored))
        e2 == Axis(e1, "netapp_dedup", "netapp_nodedup",
                   VolIn(vol, cat.dedup))
        e3 == Axis(e2, "netapp_compression", "netapp_nocompression",
                   VolIn(vol, cat.compression))
    IN  Axis(e3, "netapp_thin_provisioned", "netapp_thick_provisioned",
             VolIn(vol, cat.thin))

-----------------------------------------------------------------------------
(* LUN records: block_base.NetAppLun and the backend's LUN elements *)

PathOf(volume, name) == <<"vol", volume, name>>     \* '/vol/%s/%s'

\* A LUN element as get_lun_by_args returns it for /vol/<volume>/<name>.
RawLun(volume, name, size) ==
    [vserver |-> vserver, volume |-> volume, qtree |-> "",
     path |-> PathOf(volume, name), multiprotocol_type |-> "linux",
     is_space_reservation_enabled |-> "true", size |-> size]

\* The lists the lookup after a clone can return: none, one or two records.
LookupResults(volume, name) ==
    {<< >>, <<RawLun(volume, name, 1)>>,
     <<RawLun(volume, name, 1), RawLun(volume, name, 2)>>}

_create_lun_meta(lun) ==
    [Vserver |-> lun.vserver, Volume |-> lun.volume, Qtree |-> lun.qtree,
     Path |-> lun.path, OsType |-> lun.multiprotocol_type,
     SpaceReserved |-> lun.is_space_reservation_enabled]

NetAppLun(handle, name, size, metadata) ==
    [handle |-> handle, name |-> name, size |-> size, metadata |-> metadata]

\* CloneEntry built from the last record instead of the first.
CloneEntry_LastRecord(lun, new_name) ==
    LET clone_meta == _create_lun_meta(lun[Len(lun)])
    IN  NetAppLun(<<clone_meta.Vserver, clone_meta.Path>>, new_name,
                  lun[Len(lun)].size, clone_meta)

\* Lines 120-126: the table entry _clone_lun builds from a lookup result.
CloneEntry(lun, new_name) ==
    LET clone_meta == _create_lun_meta(lun[1])
    IN  NetAppLun(<<clone_meta.Vserver, clone_meta.Path>>, new_name,
                  lun[1].size, clone_meta)

\* The entry the base library's create_volume registers after _create_lun.
CreatedEntry(volume_name, lun_name) ==
    LET metadata == [Vserver |-> vserver, Volume |-> volume_name,
                     Qtree |-> "", Path |-> PathOf(volume_name, lun_name),
                     OsType |-> "linux", SpaceReserved |-> "true"]
    IN  NetAppLun(<<vserver, metadata.Path>>, lun_name, 1, metadata)

-----------------------------------------------------------------------------
(* Frames and errors *)

NoErr == [type |-> "none"]
NaApiError == [type |-> "NaApiError"]               \* a backend call failed
MetadataMissing == [type |-> "MetadataMissing"]     \* _get_lun_attr found none
VolumeBackendAPIException(data) ==
    [type |-> "VolumeBackendAPIException", data |-> data]

NewFrame ==
    [op |-> "none", name |-> 0, new_name |-> 0, volume |-> NoVol,
     lun |-> << >>, err |-> NoErr, sync |-> FALSE, coalesced |-> FALSE,
     usv_volume |-> None, usv_reset |-> FALSE, set_copy |-> {},
     vols |-> None, iter |-> {}, vol |-> None, pool |-> None,
     pools |-> << >>, ret |-> "done"]

Resting == {"idle", "done"}
InFlight(t) == pc[t] \notin Resting

\* The volume manager runs one lifecycle operation per LUN name at a time.
NamesOf(t) == IF InFlight(t) THEN {fr[t].name, fr[t].new_name} \ {0} ELSE {}
NameFree(t, n) == \A u \in Workers \ {t} : n \notin NamesOf(u)

\* A returned operation leaves behind which operation it was, the pool it
\* worked on and its error (if it raised); its other locals are gone.
Returned(f) ==
    [NewFrame EXCEPT !.op = f.op, !.err = f.err, !.volume = f.volume]

Goto(t, to, f) ==
    /\ pc' = [pc EXCEPT ![t] = to]
    /\ fr' = [fr EXCEPT ![t] = IF to \in Resting THEN Returned(f) ELSE f]

\* Enter _update_stale_vols(volume, reset), to continue at `ret`.
CallUsv(f, volume, reset, ret) ==
    [f EXCEPT !.usv_volume = volume, !.usv_reset = reset, !.ret = ret]

-----------------------------------------------------------------------------
(* Construction and setup *)

\* __init__ (lines 49-54) and the base __init__: no catalog attributes yet,
\* an empty LUN table, every thread at rest.
InitWith(w) ==
    /\ workload = w
    /\ phase = "constructed"
    /\ ssc_vols = None
    /\ stale_vols = {}
    /\ lun_table = [n \in LunNames |-> None]
    /\ stats = None
    /\ lock_stale = NoThread
    /\ lock_refresh = NoThread
    /\ job_running = FALSE
    /\ pc = [t \in Threads |-> "idle"]
    /\ fr = [t \in Threads |-> NewFrame]
    /\ pending = {}

\* do_setup (lines 56-71), called once by the volume manager before any
\* other operation.
do_setup ==
    /\ phase = "constructed"
    /\ phase' = "ready"
    /\ ssc_vols' = None
    /\ stale_vols' = {}
    /\ UNCHANGED <<workload, lun_table, stats, lock_stale, lock_refresh, job_running,
                   pc, fr, pending>>

-----------------------------------------------------------------------------
(* _update_stale_vols (lines 220-228), under the 'update_stale' lock *)

\* UsvLock without the decorator: the body is entered at once.
UsvLock_NoWait(t) ==
    /\ pc[t] = "usv_lock"
    /\ lock_stale' = t
    /\ Goto(t, IF fr[t].usv_volume # None THEN "usv_add" ELSE "usv_copy",
            fr[t])
    /\ UNCHANGED <<workload, phase, ssc_vols, stale_vols, lun_table, stats,
                   lock_refresh, job_running, pending>>

\* @utils.synchronized('update_stale'): wait for the lock, then enter.
UsvLock(t) ==
    /\ pc[t] = "usv_lock"
    /\ lock_stale = NoThread
    /\ lock_stale' = t
    /\ Goto(t, IF fr[t].usv_volume # None THEN "usv_add" ELSE "usv_copy",
            fr[t])
    /\ UNCHANGED <<workload, phase, ssc_vols, stale_vols, lun_table, stats,
                   lock_refresh, job_running, pending>>

\* UsvAdd that also throws the catalog away.
UsvAdd_DropsCatalog(t) ==
    /\ pc[t] = "usv_add"
    /\ stale_vols' = stale_vols \cup {fr[t].usv_volume}
    /\ pending' = pending \cup {fr[t].usv_volume}
    /\ ssc_vols' = None
    /\ IF fr[t].usv_reset
         THEN /\ Goto(t, "usv_copy", fr[t])
              /\ UNCHANGED lock_stale
         ELSE /\ Goto(t, fr[t].ret, fr[t])
              /\ lock_stale' = NoThread
    /\ UNCHANGED <<workload, phase, lun_table, stats, lock_refresh, job_running>>

\* UsvAdd that toggles: marking a pool that is already marked unmarks it.
UsvAdd_Toggles(t) ==
    /\ pc[t] = "usv_add"
    /\ stale_vols' = IF fr[t].usv_volume \in stale_vols
                       THEN stale_vols \ {fr[t].usv_volume}
                       ELSE stale_vols \cup {fr[t].usv_volume}
    /\ pending' = pending \cup {fr[t].usv_volume}
    /\ IF fr[t].usv_reset
         THEN /\ Goto(t, "usv_copy", fr[t])
              /\ UNCHANGED lock_stale
         ELSE /\ Goto(t, fr[t].ret, fr[t])
              /\ lock_stale' = NoThread
    /\ UNCHANGED <<workload, phase, ssc_vols, lun_table, stats, lock_refresh, job_running>>

\* Line 224 (`self.stale_vols.add(volume)`); without reset the call returns.
UsvAdd(t) ==
    /\ pc[t] = "usv_add"
    /\ stale_vols' = stale_vols \cup {fr[t].usv_volume}
    /\ pending' = pending \cup {fr[t].usv_volume}
    /\ IF fr[t].usv_reset
         THEN /\ Goto(t, "usv_copy", fr[t])
              /\ UNCHANGED lock_stale
         ELSE /\ Goto(t, fr[t].ret, fr[t])
              /\ lock_stale' = NoThread
    /\ UNCHANGED <<workload, phase, ssc_vols, lun_table, stats, lock_refresh, job_running>>

\* Line 226: set_copy = copy.deepcopy(self.stale_vols)
UsvCopy(t) ==
    /\ pc[t] = "usv_copy"
    /\ Goto(t, "usv_clear", [fr[t] EXCEPT !.set_copy = stale_vols])
    /\ UNCHANGED <<workload, phase, ssc_vols, stale_vols, lun_table, stats, lock_stale,
                   lock_refresh, job_running, pending>>

\* Lines 227-228: self.stale_vols.clear(); return set_copy
UsvClear(t) ==
    /\ pc[t] = "usv_clear"
    /\ stale_vols' = {}
    /\ pending' = pending \ fr[t].set_copy
    /\ lock_stale' = NoThread
    /\ Goto(t, fr[t].ret, fr[t])
    /\ UNCHANGED <<workload, phase, ssc_vols, lun_table, stats, lock_refresh, job_running>>

-----------------------------------------------------------------------------
(* refresh_ssc_vols (lines 230-233), under the 'refresh_ssc_vols' lock *)

RsvLock(t) ==
    /\ pc[t] = "rsv_lock"
    /\ lock_refresh = NoThread
    /\ lock_refresh' = t
    /\ Goto(t, "rsv_body", fr[t])
    /\ UNCHANGED <<workload, phase, ssc_vols, stale_vols, lun_table, stats, lock_stale,
                   job_running, pending>>

\* RsvBody that also empties the invalidation set.
RsvBody_ClearsStale(t) ==
    /\ pc[t] = "rsv_body"
    /\ ssc_vols' = fr[t].vols
    /\ stale_vols' = {}
    /\ lock_refresh' = NoThread
    /\ Goto(t, "ssc_end", fr[t])
    /\ UNCHANGED <<workload, phase, lun_table, stats, lock_stale,
                   job_running, pending>>

\* RsvBody that drops the catalog when the scan found no pool with a
\* capability.
RsvBody_DropsPlain(t) ==
    /\ pc[t] = "rsv_body"
    /\ ssc_vols' = IF fr[t].vols.mirrored = {} THEN None ELSE fr[t].vols
    /\ lock_refresh' = NoThread
    /\ Goto(t, "ssc_end", fr[t])
    /\ UNCHANGED <<workload, phase, stale_vols, lun_table, stats, lock_stale,
                   job_running, pending>>

\* RsvBody that drains the invalidation set before it lets go of its lock.
RsvBody_DrainsInside(t) ==
    /\ pc[t] = "rsv_body"
    /\ ssc_vols' = fr[t].vols
    /\ Goto(t, "usv_lock", CallUsv(fr[t], None, TRUE, "ssc_end"))
    /\ UNCHANGED <<workload, phase, stale_vols, lun_table, stats, lock_stale,
                   lock_refresh, job_running, pending>>

\* Line 233: self.ssc_vols = vols, then the lock is released.
RsvBody(t) ==
    /\ pc[t] = "rsv_body"
    /\ ssc_vols' = fr[t].vols
    /\ lock_refresh' = NoThread
    /\ Goto(t, "ssc_end", fr[t])
    /\ UNCHANGED <<workload, phase, stale_vols, lun_table, stats, lock_stale,
                   job_running, pending>>

-----------------------------------------------------------------------------
(* LUN lifecycle: create, clone, delete *)

\* The unchanged shared state of a step that touches only its own frame.
LocalStep ==
    UNCHANGED <<workload, phase, ssc_vols, stale_vols, lun_table, stats, lock_stale,
                lock_refresh, job_running, pending>>

CanStart(t, op) ==
    /\ phase = "ready"
    /\ t \in Workers
    /\ pc[t] \in Resting
    /\ op \in workload.ops[t]

\* _create_lun that marks the pool before it knows the backend call worked.
_create_lun_MarksFirst(t) ==
    /\ CanStart(t, "create")
    /\ \E volume_name \in Pools, lun_name \in LunNames, ok \in BOOLEAN :
         LET f == [NewFrame EXCEPT !.op = "create", !.name = lun_name,
                                   !.volume = volume_name]
         IN  /\ NameFree(t, lun_name)
             /\ IF ok
                  THEN /\ Goto(t, "usv_lock",
                               CallUsv(f, NetAppVolume(volume_name, vserver),
                                       FALSE, "cv_register"))
                       /\ UNCHANGED <<stale_vols, pending>>
                  ELSE /\ Goto(t, "done", [f EXCEPT !.err = NaApiError])
                       /\ stale_vols' = stale_vols \cup
                                          {NetAppVolume(volume_name, vserver)}
                       /\ pending' = pending \cup
                                          {NetAppVolume(volume_name, vserver)}
    /\ UNCHANGED <<workload, phase, ssc_vols, lun_table, stats, lock_stale,
                   lock_refresh, job_running>>

\* _create_lun (lines 78-86): the backend call (line 82) either raises, and
\* the error leaves the method, or returns, and the pool is marked (line 85).
_create_lun(t) ==
    /\ CanStart(t, "create")
    /\ \E volume_name \in Pools, lun_name \in LunNames, ok \in BOOLEAN :
         LET f == [NewFrame EXCEPT !.op = "create", !.name = lun_name,
                                   !.volume = volume_name]
         IN  /\ NameFree(t, lun_name)
             /\ IF ok
                  THEN Goto(t, "usv_lock",
                            CallUsv(f, NetAppVolume(volume_name, vserver), FALSE,
                                    "cv_register"))
                  ELSE Goto(t, "done", [f EXCEPT !.err = NaApiError])
    /\ LocalStep

\* The caller of _create_lun, the base library's create_volume, then records
\* the new LUN in the LUN table.
CreateVolumeRegister(t) ==
    /\ pc[t] = "cv_register"
    /\ lun_table' = [lun_table EXCEPT
                       ![fr[t].name] = CreatedEntry(fr[t].volume, fr[t].name)]
    /\ Goto(t, "done", fr[t])
    /\ UNCHANGED <<workload, phase, ssc_vols, stale_vols, stats, lock_stale,
                   lock_refresh, job_running, pending>>

\* The base library's _get_lun_attr(name, 'metadata'): the recorded metadata
\* of a tracked LUN, None for an untracked one.
_get_lun_attr(table, name) ==
    IF table[name] = None THEN None ELSE table[name].metadata

\* _clone_lun, lines 109-110: resolve the source LUN's pool.
_clone_lun(t) ==
    /\ CanStart(t, "clone")
    /\ \E name \in LunNames, new_name \in LunNames :
         LET f == [NewFrame EXCEPT !.op = "clone", !.name = name,
                                   !.new_name = new_name]
             metadata == _get_lun_attr(lun_table, name)
         IN  /\ new_name # name
             /\ NameFree(t, name)
             /\ NameFree(t, new_name)
             /\ IF metadata = None
                  THEN Goto(t, "done", [f EXCEPT !.err = MetadataMissing])
                  ELSE Goto(t, "cl_clone",
                            [f EXCEPT !.volume = metadata.Volume])
    /\ LocalStep

\* Lines 111-112: the backend's clone primitive; it raises or returns.
CloneBackend(t) ==
    /\ pc[t] = "cl_clone"
    /\ \E ok \in BOOLEAN :
         IF ok THEN Goto(t, "cl_lookup", fr[t])
               ELSE Goto(t, "done", [fr[t] EXCEPT !.err = NaApiError])
    /\ LocalStep

\* CloneLookup that registers the clone before it has looked it up.
CloneLookup_RegistersFirst(t) ==
    /\ pc[t] = "cl_lookup"
    /\ \E lun \in LookupResults(fr[t].volume, fr[t].new_name) :
         Goto(t, "cl_check", [fr[t] EXCEPT !.lun = lun])
    /\ lun_table' = [lun_table EXCEPT ![fr[t].new_name] =
                       CreatedEntry(fr[t].volume, fr[t].new_name)]
    /\ UNCHANGED <<workload, phase, ssc_vols, stale_vols, stats, lock_stale,
                   lock_refresh, job_running, pending>>

\* Lines 114-116: look the clone up on the backend.
CloneLookup(t) ==
    /\ pc[t] = "cl_lookup"
    /\ \E lun \in LookupResults(fr[t].volume, fr[t].new_name) :
         Goto(t, "cl_check", [fr[t] EXCEPT !.lun = lun])
    /\ LocalStep

\* CloneCheck whose error names the source LUN.
CloneCheck_NamesSource(t) ==
    /\ pc[t] = "cl_check"
    /\ IF Len(fr[t].lun) = 0
         THEN /\ Goto(t, "done",
                      [fr[t] EXCEPT !.err =
                          VolumeBackendAPIException(fr[t].name)])
              /\ UNCHANGED lun_table
         ELSE /\ lun_table' =
                   [lun_table EXCEPT
                      ![fr[t].new_name] = CloneEntry(fr[t].lun, fr[t].new_name)]
              /\ Goto(t, "usv_lock",
                      CallUsv(fr[t], NetAppVolume(fr[t].volume, vserver),
                              FALSE, "done"))
    /\ UNCHANGED <<workload, phase, ssc_vols, stale_vols, stats, lock_stale,
                   lock_refresh, job_running, pending>>

\* Lines 117-128: no record raises; otherwise the first record is
\* registered under new_name and the source pool is marked.
CloneCheck(t) ==
    /\ pc[t] = "cl_check"
    /\ IF Len(fr[t].lun) = 0
         THEN /\ Goto(t, "done",
                      [fr[t] EXCEPT !.err =
                          VolumeBackendAPIException(fr[t].new_name)])
              /\ UNCHANGED lun_table
         ELSE /\ lun_table' =
                   [lun_table EXCEPT
                      ![fr[t].new_name] = CloneEntry(fr[t].lun, fr[t].new_name)]
              /\ Goto(t, "usv_lock",
                      CallUsv(fr[t], NetAppVolume(fr[t].volume, vserver),
                              FALSE, "done"))
    /\ UNCHANGED <<workload, phase, ssc_vols, stale_vols, stats, lock_stale,
                   lock_refresh, job_running, pending>>

\* delete_volume, lines 237-240: read the owning pool from the LUN table.
delete_volume(t) ==
    /\ CanStart(t, "delete")
    /\ \E name \in LunNames :
         LET lun == lun_table[name]
             netapp_vol == IF lun # None THEN lun.metadata.Volume ELSE NoVol
         IN  /\ NameFree(t, name)
             /\ Goto(t, "dv_base",
                     [NewFrame EXCEPT !.op = "delete", !.name = name,
                                      !.volume = netapp_vol])
    /\ LocalStep

\* The base library's delete_volume: an untracked LUN is left alone; a
\* tracked one is destroyed on the backend (which can fail) and then dropped
\* from the LUN table.
BaseDeleteOutcomes(table, name) ==
    IF table[name] = None
      THEN {[err |-> NoErr, table |-> table]}
      ELSE {[err |-> NoErr, table |-> [table EXCEPT ![name] = None]],
            [err |-> NaApiError, table |-> table]}

\* DeleteBase that looks the pool up after the deletion instead of before.
DeleteBase_LooksUpAfter(t) ==
    /\ pc[t] = "dv_base"
    /\ \E out \in BaseDeleteOutcomes(lun_table, fr[t].name) :
         LET lun == out.table[fr[t].name]
             netapp_vol == IF lun # None THEN lun.metadata.Volume ELSE NoVol
         IN  /\ lun_table' = out.table
             /\ IF out.err # NoErr
                  THEN Goto(t, "done", [fr[t] EXCEPT !.err = out.err])
                  ELSE IF netapp_vol # NoVol
                         THEN Goto(t, "usv_lock",
                                   CallUsv(fr[t],
                                           NetAppVolume(netapp_vol, vserver),
                                           FALSE, "done"))
                         ELSE Goto(t, "done", fr[t])
    /\ UNCHANGED <<workload, phase, ssc_vols, stale_vols, stats, lock_stale,
                   lock_refresh, job_running, pending>>

\* DeleteBase without the `if netapp_vol:` test.
DeleteBase_AlwaysMarks(t) ==
    /\ pc[t] = "dv_base"
    /\ \E out \in BaseDeleteOutcomes(lun_table, fr[t].name) :
         /\ lun_table' = out.table
         /\ IF out.err # NoErr
              THEN Goto(t, "done", [fr[t] EXCEPT !.err = out.err])
              ELSE Goto(t, "usv_lock",
                        CallUsv(fr[t], NetAppVolume(fr[t].volume, vserver),
                                FALSE, "done"))
    /\ UNCHANGED <<workload, phase, ssc_vols, stale_vols, stats, lock_stale,
                   lock_refresh, job_running, pending>>

\* Lines 241-244: delegate the deletion, then mark the pool read before it.
DeleteBase(t) ==
    /\ pc[t] = "dv_base"
    /\ \E out \in BaseDeleteOutcomes(lun_table, fr[t].name) :
         /\ lun_table' = out.table
         /\ IF out.err # NoErr
              THEN Goto(t, "done", [fr[t] EXCEPT !.err = out.err])
              ELSE IF fr[t].volume # NoVol
                     THEN Goto(t, "usv_lock",
                               CallUsv(fr[t],
                                       NetAppVolume(fr[t].volume, vserver),
                                       FALSE, "done"))
                     ELSE Goto(t, "done", fr[t])
    /\ UNCHANGED <<workload, phase, ssc_vols, stale_vols, stats, lock_stale,
                   lock_refresh, job_running, pending>>

-----------------------------------------------------------------------------
(* Stats: _update_volume_stats and _get_pool_stats *)

\* _update_volume_stats that always asks for an asynchronous refresh.
_update_volume_stats_NeverSync(t) ==
    /\ CanStart(t, "stats")
    /\ Goto(t, "uvs_refresh", [NewFrame EXCEPT !.op = "stats", !.sync = FALSE])
    /\ LocalStep

\* _update_volume_stats, line 156: sync = True if self.ssc_vols is None.
_update_volume_stats(t) ==
    /\ CanStart(t, "stats")
    /\ Goto(t, "uvs_refresh",
            [NewFrame EXCEPT !.op = "stats", !.sync = (ssc_vols = None)])
    /\ LocalStep

\* ssc_cmode.refresh_cluster_ssc(self, ..., synchronous=sync), lines 157-158.
\* A request that finds a rescan in flight is coalesced; a synchronous one
\* runs the full scan in the caller; an asynchronous one may hand a rescan
\* to the background thread, and returns at once either way.
RefreshClusterSsc(t) ==
    /\ pc[t] = "uvs_refresh"
    /\ \/ /\ job_running
          /\ Goto(t, "gps_check", [fr[t] EXCEPT !.coalesced = TRUE])
          /\ UNCHANGED job_running
       \/ /\ ~job_running
          /\ fr[t].sync
          /\ job_running' = TRUE
          /\ Goto(t, "ssc_scan", fr[t])
       \/ /\ ~job_running
          /\ ~fr[t].sync
          /\ job_running' = TRUE
          /\ pc' = [pc EXCEPT ![t] = "gps_check", ![Bg] = "usv_lock"]
          /\ fr' = [fr EXCEPT ![Bg] =
                      CallUsv([NewFrame EXCEPT !.op = "rescan"],
                              None, TRUE, "ssc_scan")]
       \/ /\ ~job_running
          /\ ~fr[t].sync
          /\ Goto(t, "gps_check", fr[t])
          /\ UNCHANGED job_running
    /\ UNCHANGED <<workload, phase, ssc_vols, stale_vols, lun_table, stats, lock_stale,
                   lock_refresh, pending>>

\* The rescan proper: query the full inventory and classify it; the result
\* goes to refresh_ssc_vols. The background job drained the invalidation
\* set first and may skip the scan when nothing was stale.
SscScan(t) ==
    /\ pc[t] = "ssc_scan"
    /\ \/ \E inv \in workload.scans :
            Goto(t, "rsv_lock", [fr[t] EXCEPT !.vols = get_cluster_ssc(inv)])
       \/ /\ t = Bg
          /\ fr[t].set_copy = {}
          /\ Goto(t, "ssc_end", fr[t])
    /\ LocalStep

\* The rescan is over: the engine lets the next one start.
SscEnd(t) ==
    /\ pc[t] = "ssc_end"
    /\ job_running' = FALSE
    /\ Goto(t, IF t = Bg THEN "idle" ELSE "gps_check", fr[t])
    /\ UNCHANGED <<workload, phase, ssc_vols, stale_vols, lun_table, stats, lock_stale,
                   lock_refresh, pending>>

\* GpsCheck without the test: indexing None raises.
GpsCheck_IndexesNone(t) ==
    /\ pc[t] = "gps_check"
    /\ IF ssc_vols = None
         THEN Goto(t, "done", [fr[t] EXCEPT !.err = [type |-> "TypeError"]])
         ELSE Goto(t, "gps_all", fr[t])
    /\ LocalStep

\* _get_pool_stats, lines 175-177: `if not self.ssc_vols: return pools`.
GpsCheck(t) ==
    /\ pc[t] = "gps_check"
    /\ Goto(t, IF ssc_vols = None THEN "uvs_publish" ELSE "gps_all", fr[t])
    /\ LocalStep

\* GpsAll that reads the catalog under the 'refresh_ssc_vols' lock.
GpsAll_UnderRefreshLock(t) ==
    /\ pc[t] = "gps_all"
    /\ lock_refresh = NoThread
    /\ Goto(t, IF ssc_vols.all = {} THEN "uvs_publish" ELSE "gps_mirrored",
            [fr[t] EXCEPT !.iter = ssc_vols.all])
    /\ LocalStep

\* Line 179: `for vol in self.ssc_vols['all']` takes the set to iterate.
GpsAll(t) ==
    /\ pc[t] = "gps_all"
    /\ Goto(t, IF ssc_vols.all = {} THEN "uvs_publish" ELSE "gps_mirrored",
            [fr[t] EXCEPT !.iter = ssc_vols.all])
    /\ LocalStep

\* Lines 179-201: the next vol of the iteration (in the set's own order),
\* its own fields, and the first capability read from self.ssc_vols.
GpsMirrored(t) ==
    /\ pc[t] = "gps_mirrored"
    /\ \E vol \in fr[t].iter :
         Goto(t, "gps_dedup",
              [fr[t] EXCEPT
                 !.vol = vol, !.iter = fr[t].iter \ {vol},
                 !.pool = Axis(PoolBase(vol), "netapp_mirrored",
                               "netapp_unmirrored",
                               VolIn(vol, ssc_vols.mirrored))])
    /\ LocalStep

\* Lines 203-205
GpsDedup(t) ==
    /\ pc[t] = "gps_dedup"
    /\ Goto(t, "gps_compression",
            [fr[t] EXCEPT !.pool = Axis(fr[t].pool, "netapp_dedup",
                                        "netapp_nodedup",
                                        VolIn(fr[t].vol, ssc_vols.dedup))])
    /\ LocalStep

\* Lines 207-210
GpsCompression(t) ==
    /\ pc[t] = "gps_compression"
    /\ Goto(t, "gps_thin",
            [fr[t] EXCEPT !.pool = Axis(fr[t].pool, "netapp_compression",
                                        "netapp_nocompression",
                                        VolIn(fr[t].vol,
                                              ssc_vols.compression))])
    /\ LocalStep

\* Lines 212-216: the last capability, then pools.append(pool).
GpsThin(t) ==
    /\ pc[t] = "gps_thin"
    /\ LET pool == Axis(fr[t].pool, "netapp_thin_provisioned",
                        "netapp_thick_provisioned",
                        VolIn(fr[t].vol, ssc_vols.thin))
       IN  Goto(t, IF fr[t].iter = {} THEN "uvs_publish" ELSE "gps_mirrored",
                [fr[t] EXCEPT !.pool = pool,
                              !.pools = Append(fr[t].pools, pool)])
    /\ LocalStep

\* _update_volume_stats, lines 167-170: data['pools'] becomes self._stats.
UvsPublish(t) ==
    /\ pc[t] = "uvs_publish"
    /\ stats' = [pools |-> fr[t].pools]
    /\ Goto(t, "done", fr[t])
    /\ UNCHANGED <<workload, phase, ssc_vols, stale_vols, lun_table, lock_stale,
                   lock_refresh, job_running, pending>>

-----------------------------------------------------------------------------
(* The program *)

Step(t) ==
    \/ _create_lun(t)
    \/ CreateVolumeRegister(t)
    \/ _clone_lun(t)
    \/ CloneBackend(t)
    \/ CloneLookup(t)
    \/ CloneCheck(t)
    \/ delete_volume(t)
    \/ DeleteBase(t)
    \/ _update_volume_stats(t)
    \/ RefreshClusterSsc(t)
    \/ SscScan(t)
    \/ RsvLock(t)
    \/ RsvBody(t)
    \/ SscEnd(t)
    \/ GpsCheck(t)
    \/ GpsAll(t)
    \/ GpsMirrored(t)
    \/ GpsDedup(t)
    \/ GpsCompression(t)
    \/ GpsThin(t)
    \/ UvsPublish(t)
    \/ UsvLock(t)
    \/ UsvAdd(t)
    \/ UsvCopy(t)
    \/ UsvClear(t)

Next == do_setup \/ \E t \in Threads : Step(t)

\* One caller thread issues every operation; the backend reports pool 1,
\* with and without capabilities.
Init ==
    InitWith([ops   |-> [t \in Workers |-> IF t = "w1" THEN OpNames ELSE {}],
              scans |-> {Inventory(1, 1), Inventory(1, 2)},
              size_multiplier |-> SizeMultiplierPct])

Spec == Init /\ [][Next]_vars

\* Two caller threads run lifecycle operations side by side, one of them
\* also asks for stats (which starts the rescans).
InitLifecycle ==
    InitWith([ops   |-> [t \in Workers |->
                           IF t = "w1" THEN {"create", "clone", "delete"}
                                       ELSE {"delete", "stats"}],
              scans |-> {Inventory(1, 1)},
              size_multiplier |-> SizeMultiplierPct])

SpecLifecycle == InitLifecycle /\ [][Next]_vars

\* Two caller threads ask for stats side by side.
InitStats ==
    InitWith([ops   |-> [t \in Workers |-> {"stats"}],
              scans |-> {Inventory(1, 1), Inventory(1, 2)},
              size_multiplier |-> SizeMultiplierPct])

\* The steps of a run without lifecycle operations: nothing is ever marked.
StatsStep(t) ==
    \/ _update_volume_stats(t)
    \/ RefreshClusterSsc(t)
    \/ SscScan(t)
    \/ RsvLock(t)
    \/ RsvBody(t)
    \/ SscEnd(t)
    \/ GpsCheck(t)
    \/ GpsAll(t)
    \/ GpsMirrored(t)
    \/ GpsDedup(t)
    \/ GpsCompression(t)
    \/ GpsThin(t)
    \/ UvsPublish(t)
    \/ UsvLock(t)
    \/ UsvCopy(t)
    \/ UsvClear(t)

NextStats == do_setup \/ \E t \in Threads : StatsStep(t)

SpecStats == InitStats /\ [][NextStats]_vars

\* Two caller threads ask for stats side by side while the vserver has no
\* pool at first and one pool later.
InitCold ==
    InitWith([ops   |-> [t \in Workers |-> {"stats"}],
              scans |-> {Inventory(0, 1), Inventory(1, 1)},
              size_multiplier |-> SizeMultiplierPct])

SpecCold == InitCold /\ [][NextStats]_vars

\* One caller thread creates LUN 1 in pool 1, clones it to LUN 2 and deletes
\* LUN 2, in any order and any number of times, while the other asks for
\* stats. Every thread in the middle of an operation keeps being scheduled
\* (its backend calls return), and a thread waiting for a lock gets it if
\* the lock keeps becoming free.
InitFair ==
    InitWith([ops   |-> [t \in Workers |->
                           IF t = "w1" THEN {"create", "clone", "delete"}
                                       ELSE {"stats"}],
              scans |-> {Inventory(1, 1)},
              size_multiplier |-> SizeMultiplierPct])

FairStep(t) ==
    \/ _create_lun(t) /\ fr'[t].name = 1 /\ fr'[t].volume = 1
    \/ CreateVolumeRegister(t)
    \/ _clone_lun(t) /\ fr'[t].name = 1 /\ fr'[t].new_name = 2
    \/ CloneBackend(t)
    \/ CloneLookup(t)
    \/ CloneCheck(t)
    \/ delete_volume(t) /\ fr'[t].name = 2
    \/ DeleteBase(t)
    \/ _update_volume_stats(t)
    \/ RefreshClusterSsc(t)
    \/ SscScan(t)
    \/ RsvLock(t)
    \/ RsvBody(t)
    \/ SscEnd(t)
    \/ GpsCheck(t)
    \/ GpsAll(t)
    \/ GpsMirrored(t)
    \/ GpsDedup(t)
    \/ GpsCompression(t)
    \/ GpsThin(t)
    \/ UvsPublish(t)
    \/ UsvLock(t)
    \/ UsvAdd(t)
    \/ UsvCopy(t)
    \/ UsvClear(t)

NextFair == do_setup \/ \E t \in Threads : FairStep(t)

Run(t) == InFlight(t) /\ FairStep(t)

SpecFair ==
    /\ InitFair
    /\ [][NextFair]_vars
    /\ \A t \in Threads :
          WF_vars(Run(t)) /\ SF_vars(UsvLock(t)) /\ SF_vars(RsvLock(t))

\* The end-to-end run of one caller thread: LUN 1 is created in pool 1;
\* the first stats request scans (cold path); LUN 1 is cloned to LUN 2; the
\* next stats request starts the background rescan, which drains and
\* replaces; further stats requests follow once that rescan is over. The
\* backend reports pool 1 without capabilities, with one of two sizes.
ScenarioScans == {{RawVol(1, 1)}, {Sized(RawVol(1, 1), 20481, 4099)}}

InitScenario ==
    InitWith([ops   |-> [t \in Workers |->
                           IF t = "w1" THEN {"create", "clone", "stats"}
                                       ELSE {}],
              scans |-> ScenarioScans,
              size_multiplier |-> SizeMultiplierPct])

ScenarioStep(t) ==
    \/ /\ lun_table[1] = None /\ ssc_vols = None
       /\ _create_lun(t) /\ fr'[t].name = 1 /\ fr'[t].volume = 1
    \/ CreateVolumeRegister(t)
    \/ /\ lun_table[1] # None
       /\ ssc_vols = None \/ lun_table[2] # None
       /\ pc[Bg] = "idle"
       /\ _update_volume_stats(t)
    \/ /\ ssc_vols # None /\ lun_table[2] = None
       /\ _clone_lun(t) /\ fr'[t].name = 1 /\ fr'[t].new_name = 2
    \/ CloneBackend(t)
    \/ CloneLookup(t)
    \/ CloneCheck(t)
    \/ /\ RefreshClusterSsc(t)
       /\ (~fr[t].sync /\ stale_vols # {}) => pc'[Bg] = "usv_lock"
    \/ SscScan(t)
    \/ RsvLock(t)
    \/ RsvBody(t)
    \/ SscEnd(t)
    \/ GpsCheck(t)
    \/ GpsAll(t)
    \/ GpsMirrored(t)
    \/ GpsDedup(t)
    \/ GpsCompression(t)
    \/ GpsThin(t)
    \/ UvsPublish(t)
    \/ UsvLock(t)
    \/ UsvAdd(t)
    \/ UsvCopy(t)
    \/ UsvClear(t)

NextScenario == do_setup \/ \E t \in Threads : ScenarioStep(t)

SpecScenario == InitScenario /\ [][NextScenario]_vars

\* One caller thread asks for stats again and again while the backend's
\* report of the vserver changes: pool 1 in each of its variants, pools 1 and
\* 2 together, and pool 1 with a total size that is exactly 10.005 GB at
\* multiplier 6.25. The multiplier is 1.0, 1.2 or 6.25.
ReportScans ==
    {{RawVol(1, v)} : v \in 1..NumReports}
       \cup {Inventory(2, 1), {Sized(RawVol(1, 1), 64032, 25605)}}

InitReport ==
    \E multiplier \in {SizeMultiplierPct, 120, 625} :
       InitWith([ops   |-> [t \in Workers |->
                              IF t = "w1" THEN {"stats"} ELSE {}],
                 scans |-> ReportScans,
                 size_multiplier |-> multiplier])

SpecReport == InitReport /\ [][NextStats]_vars

-----------------------------------------------------------------------------
(* Properties *)

\* Thread t takes part in the step.
TStep(t) == pc'[t] # pc[t] \/ fr'[t] # fr[t]

Names(vols) == {v.id.name : v \in vols}

\* C1: under every interleaving of marks and drains, no mark is dropped and
\* none is handed out by two drains: the invalidation set is at all times
\* exactly the identities marked since a drain last handed them out, and a
\* drain hands out exactly those.
C1_InvalidationNeverLost ==
    /\ stale_vols = pending
    /\ \A t \in Threads : pc[t] = "usv_clear" => fr[t].set_copy = pending

\* A drain holds a non-empty copy while a caller thread waits to mark.
C1_Witness ==
    /\ pc[Bg] = "usv_clear"
    /\ fr[Bg].set_copy # {}
    /\ \E t \in Workers : pc[t] = "usv_lock"

\* C2: every pool entry a stats read builds or publishes is the entry of one
\* single catalog: its own fields and its four capability axes all come from
\* the same catalog.
SingleCatalogEntries ==
    UNION {{PoolEntry(c, v) : v \in c.all} : c \in Catalogs}

C2_AtomicReplace ==
    /\ \A t \in Workers :
         \A i \in DOMAIN fr[t].pools : fr[t].pools[i] \in SingleCatalogEntries
    /\ stats # None =>
         \A i \in DOMAIN stats.pools :
            stats.pools[i] \in SingleCatalogEntries

\* C3: refresh_ssc_vols leaves the invalidation set alone, so what was
\* marked after a rescan's drain is still there after its replace, and the
\* next drain copies all of it.
C3_ReplaceKeepsMarks ==
    [][\A t \in Threads :
         /\ (pc[t] = "rsv_body" /\ TStep(t)) => stale_vols' = stale_vols
         /\ (pc[t] = "usv_copy" /\ TStep(t)) =>
               fr'[t].set_copy = stale_vols]_vars

\* The background rescan has installed its catalog and a mark made after its
\* drain is pending.
C3_Witness ==
    /\ pc[Bg] = "ssc_end"
    /\ ssc_vols = fr[Bg].vols
    /\ fr[Bg].set_copy # {}
    /\ stale_vols # {}

\* C4: _create_lun returns with its pool in the invalidation set when the
\* backend call succeeded; when the call failed the backend's error leaves
\* the method and the invalidation set is as it was; no step before the
\* mark itself touches the set.
C4_CreateMarksOnSuccess ==
    [][\A t \in Workers :
         /\ (pc[t] = "usv_add" /\ fr[t].op = "create" /\ TStep(t)) =>
               /\ pc'[t] = "cv_register"
               /\ NetAppVolume(fr[t].volume, vserver) \in stale_vols'
         /\ (pc[t] \in Resting /\ fr'[t].op = "create" /\ TStep(t)) =>
               /\ stale_vols' = stale_vols
               /\ \/ pc'[t] = "done" /\ fr'[t].err = NaApiError
                  \/ /\ pc'[t] = "usv_lock" /\ fr'[t].err = NoErr
                     /\ fr'[t].usv_volume =
                          NetAppVolume(fr'[t].volume, vserver)]_vars

\* _create_lun has just returned and its pool is marked.
C4_Witness ==
    \E t \in Workers :
       /\ pc[t] = "cv_register"
       /\ NetAppVolume(fr[t].volume, vserver) \in stale_vols

\* C5: a clone that found its record returns with new_name registered from
\* the first record of the lookup and with the source LUN's pool in the
\* invalidation set; the entry is in the table all the while the mark is
\* under way.
CloneRegistered(t) ==
    LET e == lun_table[fr[t].new_name]
        first == fr[t].lun[1]
    IN  /\ e # None
        /\ e.name = fr[t].new_name
        /\ e.size = first.size
        /\ e.handle = <<first.vserver, first.path>>
        /\ e.metadata = _create_lun_meta(first)

C5_CloneRegistersThenMarks ==
    /\ [](\A t \in Workers :
            (pc[t] \in {"usv_lock", "usv_add"} /\ fr[t].op = "clone") =>
               /\ Len(fr[t].lun) >= 1
               /\ CloneRegistered(t)
               /\ lun_table[fr[t].name] # None
               /\ fr[t].usv_volume =
                    NetAppVolume(lun_table[fr[t].name].metadata.Volume,
                                 vserver))
    /\ [][\A t \in Workers :
            (pc[t] = "usv_add" /\ fr[t].op = "clone" /\ TStep(t)) =>
               /\ pc'[t] = "done"
               /\ fr'[t].err = NoErr
               /\ lun_table' = lun_table
               /\ NetAppVolume(lun_table[fr[t].name].metadata.Volume, vserver)
                     \in stale_vols']_vars

\* A clone whose lookup returned two records has returned: the source pool is
\* marked and both LUNs are in the table.
C5_Witness ==
    \E t \in Workers :
       /\ pc[t] = "done"
       /\ fr[t].op = "clone"
       /\ fr[t].err = NoErr
       /\ NetAppVolume(fr[t].volume, vserver) \in stale_vols
       /\ \A n \in LunNames : lun_table[n] # None

\* C6: when the lookup after a successful backend clone returns no record,
\* the clone raises VolumeBackendAPIException naming new_name and the LUN
\* table is left as it was.
C6_CloneNotFound ==
    [][\A t \in Workers :
         (pc[t] = "cl_check" /\ Len(fr[t].lun) = 0 /\ TStep(t)) =>
            /\ pc'[t] = "done"
            /\ fr'[t].err = VolumeBackendAPIException(fr[t].new_name)
            /\ lun_table' = lun_table
            /\ stale_vols' = stale_vols]_vars

\* A clone has failed for want of a record and the target is not registered.
C6_Witness ==
    \E t \in Workers :
       /\ pc[t] = "done"
       /\ fr[t].op = "clone"
       /\ fr[t].err.type = "VolumeBackendAPIException"
       /\ lun_table[fr[t].err.data] = None

\* C7: delete_volume of a tracked LUN holds the LUN's pool, read from the
\* table before the base deletion; after a successful base deletion it
\* marks that pool and returns with it in the invalidation set; when the
\* base deletion raises, the error leaves the method and nothing is marked.
C7_DeleteMarksPool ==
    /\ [](\A t \in Workers :
            (pc[t] = "dv_base" /\ lun_table[fr[t].name] # None) =>
               fr[t].volume = lun_table[fr[t].name].metadata.Volume)
    /\ [][\A t \in Workers :
            /\ (pc[t] = "dv_base" /\ fr[t].volume # NoVol /\ TStep(t)) =>
                  /\ stale_vols' = stale_vols
                  /\ \/ /\ pc'[t] = "done" /\ fr'[t].err = NaApiError
                        /\ lun_table' = lun_table
                     \/ /\ pc'[t] = "usv_lock" /\ fr'[t].err = NoErr
                        /\ lun_table'[fr[t].name] = None
                        /\ fr'[t].usv_volume =
                             NetAppVolume(fr[t].volume, vserver)
            /\ (pc[t] = "usv_add" /\ fr[t].op = "delete" /\ TStep(t)) =>
                  /\ pc'[t] = "done"
                  /\ fr'[t].err = NoErr
                  /\ NetAppVolume(fr[t].volume, vserver) \in stale_vols'
                  /\ lun_table'[fr[t].name] = None]_vars

\* A delete of a tracked LUN has returned: its pool is marked although no
\* LUN is left in the table.
C7_Witness ==
    \E t \in Workers :
       /\ pc[t] = "done"
       /\ fr[t].op = "delete"
       /\ fr[t].err = NoErr
       /\ fr[t].volume # NoVol
       /\ NetAppVolume(fr[t].volume, vserver) \in stale_vols
       /\ \A n \in LunNames : lun_table[n] = None

\* C8: delete_volume of a LUN name with no entry in the LUN table finds no
\* pool, returns without an error and leaves the invalidation set (and the
\* table) as they were.
C8_DeleteUntracked ==
    [][\A t \in Workers :
         /\ (pc[t] \in Resting /\ pc'[t] = "dv_base") =>
               (lun_table[fr'[t].name] = None <=> fr'[t].volume = NoVol)
         /\ (pc[t] = "dv_base" /\ fr[t].volume = NoVol /\ TStep(t)) =>
               /\ pc'[t] = "done"
               /\ fr'[t].err = NoErr
               /\ stale_vols' = stale_vols
               /\ lun_table' = lun_table]_vars

\* A delete of an untracked LUN has returned while nothing is marked.
C8_Witness ==
    \E t \in Workers :
       /\ pc[t] = "done"
       /\ fr[t].op = "delete"
       /\ fr[t].err = NoErr
       /\ fr[t].volume = NoVol
       /\ stale_vols = {}

GpsPcs == {"gps_check", "gps_all", "gps_mirrored", "gps_dedup",
           "gps_compression", "gps_thin", "uvs_publish"}

C11_ColdStartStats ==
    [][\A t \in Workers :
         /\ (pc[t] = "gps_check" /\ ssc_vols = None /\ TStep(t)) =>
               /\ pc'[t] = "uvs_publish"
               /\ fr'[t].pools = << >>
               /\ fr'[t].err = NoErr
         /\ (pc[t] = "gps_all" /\ ssc_vols.all = {} /\ TStep(t)) =>
               /\ pc'[t] = "uvs_publish"
               /\ fr'[t].pools = << >>
               /\ fr'[t].err = NoErr
         /\ (pc[t] = "uvs_publish" /\ fr[t].pools = << >> /\ TStep(t)) =>
               /\ pc'[t] = "done"
               /\ fr'[t].err = NoErr
               /\ stats' = [pools |-> << >>]]_vars

\* One caller is about to publish the empty list it got from the
\* uninitialized cache, the other the empty list of an installed catalog
\* without pools.
C11_Witness ==
    \E t \in Workers, u \in Workers :
       /\ pc[t] = "uvs_publish" /\ fr[t].coalesced /\ fr[t].sync
       /\ fr[t].pools = << >>
       /\ pc[u] = "uvs_publish" /\ ~fr[u].coalesced
       /\ fr[u].pools = << >>
       /\ ssc_vols # None

\* C12: in every pool entry the two tags of a capability axis are 'true'
\* and 'false', one each; and the positive tag is 'true' exactly when the
\* pool is a member of that classification set of the catalog the read
\* finds installed.
TagPairs ==
    {<<"netapp_mirrored", "netapp_unmirrored">>,
     <<"netapp_dedup", "netapp_nodedup">>,
     <<"netapp_compression", "netapp_nocompression">>,
     <<"netapp_thin_provisioned", "netapp_thick_provisioned">>}

TagsNegated(e) ==
    \A p \in TagPairs :
       (p[1] \in DOMAIN e \/ p[2] \in DOMAIN e) =>
          /\ {p[1], p[2]} \subseteq DOMAIN e
          /\ {e[p[1]], e[p[2]]} = {"true", "false"}

TagsComplete(e) == \A p \in TagPairs : {p[1], p[2]} \subseteq DOMAIN e

MemberByName(e, s) == \E w \in s : w.id.name = e.pool_name

C12_TagsAreNegations ==
    /\ [](\A t \in Workers :
            /\ TagsNegated(fr[t].pool)
            /\ \A i \in DOMAIN fr[t].pools :
                  TagsNegated(fr[t].pools[i]) /\ TagsComplete(fr[t].pools[i]))
    /\ [](stats # None =>
            \A i \in DOMAIN stats.pools :
               TagsNegated(stats.pools[i]) /\ TagsComplete(stats.pools[i]))
    /\ [][\A t \in Workers :
            LET e == fr'[t].pool
            IN  /\ (pc[t] = "gps_mirrored" /\ TStep(t)) =>
                      (e.netapp_mirrored = "true"
                          <=> MemberByName(e, ssc_vols.mirrored))
                /\ (pc[t] = "gps_dedup" /\ TStep(t)) =>
                      (e.netapp_dedup = "true"
                          <=> MemberByName(e, ssc_vols.dedup))
                /\ (pc[t] = "gps_compression" /\ TStep(t)) =>
                      (e.netapp_compression = "true"
                          <=> MemberByName(e, ssc_vols.compression))
                /\ (pc[t] = "gps_thin" /\ TStep(t)) =>
                      (e.netapp_thin_provisioned = "true"
                          <=> MemberByName(e, ssc_vols.thin))]_vars

\* The published stats hold a deduplicated, thin, unmirrored, uncompressed
\* pool.
C12_Witness ==
    /\ stats # None
    /\ \E i \in DOMAIN stats.pools :
          /\ stats.pools[i].netapp_dedup = "true"
          /\ stats.pools[i].netapp_thin_provisioned = "true"
          /\ stats.pools[i].netapp_unmirrored = "true"
          /\ stats.pools[i].netapp_nocompression = "true"

\* C13: whenever the catalog cache is populated, each classification subset
\* is a subset of 'all' (and so is that of a catalog about to be installed).
Classified(cat) ==
    /\ cat.mirrored \subseteq cat.all
    /\ cat.dedup \subseteq cat.all
    /\ cat.compression \subseteq cat.all
    /\ cat.thin \subseteq cat.all

C13_SubsetsWithinAll ==
    /\ ssc_vols # None => Classified(ssc_vols)
    /\ \A t \in Threads : fr[t].vols # None => Classified(fr[t].vols)

\* A catalog with a classified and an unclassified pool is installed in
\* place of an earlier one.
C13_Witness ==
    /\ ssc_vols # None
    /\ stats # None
    /\ ssc_vols.thin # {}
    /\ ssc_vols.thin # ssc_vols.all
    /\ pc[Bg] = "ssc_end"

\* C16: the two capacities of an entry are the raw size divided by the size
\* multiplier and by units.Gi, cut off after two decimals: never above the
\* exact value and less than 0.01 below it; 10 GiB at multiplier 1.0
\* reports 10.00, and an exact 10.005 GB reports 10.00.
Truncated(h, raw) ==
    LET k == workload.size_multiplier * GiMiB
    IN  /\ h * k <= raw * 100 * 100
        /\ raw * 100 * 100 < (h + 1) * k
        /\ (workload.size_multiplier = 100 /\ raw = 10 * GiMiB) => h = 1000
        /\ 2 * raw * 100 * 100 = 2001 * k => h = 1000

C16_CapacityRoundsDown ==
    [][\A t \in Workers :
         (pc[t] = "gps_mirrored" /\ TStep(t)) =>
            /\ Truncated(fr'[t].pool.total_capacity_gb,
                         fr'[t].vol.space.size_total_bytes)
            /\ Truncated(fr'[t].pool.free_capacity_gb,
                         fr'[t].vol.space.size_avl_bytes)
            /\ fr'[t].vol \in ssc_vols.all \/ fr'[t].vol \in fr[t].iter]_vars

\* An entry of exactly 10.005 GB has been built and reports 10.00.
C16_Witness ==
    \E t \in Workers :
       /\ pc[t] = "gps_dedup"
       /\ 2 * fr[t].vol.space.size_total_bytes * 100 * 100
             = 2001 * workload.size_multiplier * GiMiB
       /\ fr[t].pool.total_capacity_gb = 1000

\* C14: no step of a create, clone or delete changes the catalog cache (or
\* the published stats); the cache changes only in the replace step of
\* refresh_ssc_vols.
LifecycleOps == {"create", "clone", "delete"}

C14_LifecycleLeavesCatalog ==
    [][/\ \A t \in Workers :
            (TStep(t) /\ fr'[t].op \in LifecycleOps) =>
               /\ ssc_vols' = ssc_vols
               /\ stats' = stats
       /\ ssc_vols' # ssc_vols =>
            \E t \in Threads :
               /\ pc[t] = "rsv_body" /\ pc'[t] = "ssc_end"
               /\ ssc_vols' = fr[t].vols]_vars

\* A clone has returned, its pool is marked and the installed catalog is
\* still there.
C14_Witness ==
    \E t \in Workers :
       /\ pc[t] = "done"
       /\ fr[t].op = "clone"
       /\ fr[t].err = NoErr
       /\ ssc_vols # None
       /\ stale_vols # {}

\* C15: while a thread holds the 'refresh_ssc_vols' lock, every other
\* thread inside the stats read can take its next step, every thread
\* inside _update_stale_vols can take its next step, and a thread waiting to
\* enter _update_stale_vols waits, if at all, for a thread that is inside it
\* and is not the one holding the 'refresh_ssc_vols' lock.
GpsReadPcs == {"gps_check", "gps_all", "gps_mirrored", "gps_dedup",
               "gps_compression", "gps_thin"}

GpsStep(t) ==
    \/ GpsCheck(t) \/ GpsAll(t) \/ GpsMirrored(t)
    \/ GpsDedup(t) \/ GpsCompression(t) \/ GpsThin(t)

UsvBodyPcs == {"usv_add", "usv_copy", "usv_clear"}

UsvBodyStep(t) == UsvAdd(t) \/ UsvCopy(t) \/ UsvClear(t)

C15_ReplaceBlocksNobody ==
    \A u \in Threads :
       lock_refresh = u =>
          \A t \in Threads \ {u} :
             /\ pc[t] \in GpsReadPcs => ENABLED GpsStep(t)
             /\ pc[t] \in UsvBodyPcs => ENABLED UsvBodyStep(t)
             /\ pc[t] = "usv_lock" =>
                   \/ ENABLED UsvLock(t)
                   \/ /\ lock_stale \in Threads \ {t, u}
                      /\ pc[lock_stale] \in UsvBodyPcs
                      /\ ENABLED UsvBodyStep(lock_stale)

\* The background rescan is inside refresh_ssc_vols while one caller reads
\* the stats and another is marking a pool.
C15_Witness ==
    /\ lock_refresh = Bg
    /\ pc[Bg] = "rsv_body"
    /\ \E t \in Workers, u \in Workers :
          /\ pc[t] \in GpsReadPcs \ {"gps_check"}
          /\ pc[u] = "usv_add"

\* C18: marking adds the identity to the set and nothing else, so marking
\* an identity that is already there changes nothing; a drain copies the
\* whole set, in which an identity occurs once, and leaves it empty; and
\* only the clearing step of a drain ever removes an identity.
C18_MarkIdempotent ==
    [][\A t \in Threads :
         /\ (pc[t] = "usv_add" /\ TStep(t)) =>
               /\ stale_vols' = stale_vols \cup {fr[t].usv_volume}
               /\ fr[t].usv_volume \in stale_vols => stale_vols' = stale_vols
         /\ (pc[t] = "usv_copy" /\ TStep(t)) =>
               /\ fr'[t].set_copy = stale_vols
               /\ \A n \in Pools :
                     Cardinality({v \in fr'[t].set_copy : v.name = n}) <= 1
         /\ (pc[t] = "usv_clear" /\ TStep(t)) =>
               /\ fr[t].usv_reset
               /\ stale_vols' = {}
         /\ (pc[t] # "usv_clear" /\ TStep(t)) =>
               stale_vols \subseteq stale_vols']_vars

\* A caller is marking a pool that is already marked while another caller
\* waits to mark the same pool.
C18_Witness ==
    \E t \in Workers, u \in Workers :
       /\ pc[t] = "usv_add"
       /\ fr[t].usv_volume \in stale_vols
       /\ pc[u] = "usv_lock"
       /\ fr[u].usv_volume = fr[t].usv_volume

\* C20: a clone that raises has changed nothing: each of its steps up to
\* and including the one that raises leaves the LUN table, the invalidation
\* set and the catalog cache as they were, and past the registration of the
\* clone no step raises.
C20_FailedCloneNoEffect ==
    /\ [][\A t \in Workers :
            (/\ TStep(t)
             /\ fr'[t].op = "clone"
             /\ \/ pc'[t] \in {"cl_clone", "cl_lookup", "cl_check"}
                \/ pc'[t] = "done" /\ fr'[t].err # NoErr) =>
               /\ lun_table' = lun_table
               /\ stale_vols' = stale_vols
               /\ ssc_vols' = ssc_vols]_vars
    /\ [][\A t \in Workers :
            (/\ TStep(t)
             /\ fr'[t].op = "clone"
             /\ pc[t] \in {"usv_lock", "usv_add"}) =>
               fr'[t].err = NoErr]_vars

\* A clone has failed after the backend had cloned the LUN: the target is
\* not in the table and nothing is marked, while the source is tracked.
C20_Witness ==
    \E t \in Workers :
       /\ pc[t] = "done"
       /\ fr[t].op = "clone"
       /\ fr[t].err.type = "VolumeBackendAPIException"
       /\ lun_table[fr[t].err.data] = None
       /\ \E n \in LunNames : lun_table[n] # None
       /\ stale_vols = {}

\* C19: the holder of 'update_stale' is inside _update_stale_vols and the
\* holder of 'refresh_ssc_vols' is inside refresh_ssc_vols, so no thread
\* holds both or waits for one while holding the other, and a thread that
\* waits for a lock waits for a thread that can take its next step; with
\* fair scheduling, the hand-off of the locks included, every thread waiting
\* for a lock gets it and every operation under way returns.
LockOrder ==
    /\ lock_stale # NoThread => pc[lock_stale] \in UsvBodyPcs
    /\ lock_refresh # NoThread => pc[lock_refresh] = "rsv_body"
    /\ lock_stale # NoThread => lock_stale # lock_refresh
    /\ \A t \in Threads : pc[t] \in UsvBodyPcs => lock_stale = t
    /\ \A t \in Threads : pc[t] = "rsv_body" => lock_refresh = t
    /\ \A t \in Threads :
          /\ pc[t] = "usv_lock" =>
                \/ ENABLED UsvLock(t)
                \/ ENABLED UsvBodyStep(lock_stale)
          /\ pc[t] = "rsv_lock" =>
                \/ ENABLED RsvLock(t)
                \/ ENABLED RsvBody(lock_refresh)

C19_NoDeadlock ==
    /\ []LockOrder
    /\ \A t \in Threads :
          /\ (pc[t] = "usv_lock") ~> (lock_stale = t)
          /\ (pc[t] = "rsv_lock") ~> (lock_refresh = t)
          /\ InFlight(t) ~> ~InFlight(t)

\* Both locks are held at once, by different threads, and the third thread
\* is in the middle of an operation.
C19_Witness ==
    /\ lock_refresh # NoThread
    /\ lock_stale # NoThread
    /\ \A t \in Threads : InFlight(t)

\* C17: in the end-to-end run, pool 1 is stale from the creation of LUN 1
\* until the first background rescan drains; that drain obtains exactly
\* {pool 1} and leaves the set empty; and every stats request made on an
\* installed catalog returns exactly one entry, named pool 1, with every
\* positive capability tag 'false' and with the capacities of the raw values
\* of the catalog it read, which is the installed one unless a rescan has
\* replaced it since.
P1 == NetAppVolume(1, vserver)

PositiveTags ==
    {"netapp_mirrored", "netapp_dedup", "netapp_compression",
     "netapp_thin_provisioned"}

ScenarioEntry(e, vol) ==
    /\ e.pool_name = 1
    /\ \A k \in PositiveTags : e[k] = "false"
    /\ e.total_capacity_gb * workload.size_multiplier * GiMiB
          <= vol.space.size_total_bytes * 100 * 100
    /\ vol.space.size_total_bytes * 100 * 100
          < (e.total_capacity_gb + 1) * workload.size_multiplier * GiMiB
    /\ e.free_capacity_gb * workload.size_multiplier * GiMiB
          <= vol.space.size_avl_bytes * 100 * 100
    /\ vol.space.size_avl_bytes * 100 * 100
          < (e.free_capacity_gb + 1) * workload.size_multiplier * GiMiB

C17_EndToEnd ==
    /\ []((lun_table[1] # None /\ fr[Bg].op = "none") => stale_vols = {P1})
    /\ []((pc[Bg] = "usv_clear" /\ lun_table[2] # None /\ stale_vols # {})
             => fr[Bg].set_copy = {P1})
    /\ [][(pc[Bg] = "usv_clear" /\ TStep(Bg)) => stale_vols' = {}]_vars
    /\ [][\A t \in Workers :
            /\ (pc[t] = "gps_all" /\ TStep(t)) =>
                  /\ fr'[t].iter = ssc_vols.all
                  /\ Cardinality(ssc_vols.all) = 1
            /\ (pc[t] = "gps_mirrored" /\ TStep(t)) =>
                  fr[t].iter = {fr'[t].vol}
            /\ (pc[t] = "uvs_publish" /\ TStep(t)) =>
                  stats' = [pools |-> fr[t].pools]]_vars
    /\ [](\A t \in Workers :
            (pc[t] = "uvs_publish" /\ ~fr[t].sync) =>
               /\ Len(fr[t].pools) = 1
               /\ ScenarioEntry(fr[t].pools[1], fr[t].vol)
               /\ \E inv \in workload.scans : fr[t].vol \in inv
               /\ (pc[Bg] = "idle" /\ fr[Bg].set_copy = {}
                      /\ fr[t].vol \in ssc_vols.all) =>
                     fr[t].pools = <<PoolEntry(ssc_vols, fr[t].vol)>>)

\* The last stats request has returned after the rescan that followed the
\* clone: nothing is stale, both LUNs are tracked, and the published entry
\* carries the capacities of the catalog that rescan installed.
C17_Witness ==
    /\ pc["w1"] = "done"
    /\ fr["w1"].op = "stats"
    /\ pc[Bg] = "idle"
    /\ fr[Bg].op = "rescan"
    /\ stale_vols = {}
    /\ lun_table[2] # None
    /\ ssc_vols # None
    /\ ssc_vols.all = {Sized(RawVol(1, 1), 20481, 4099)}
    /\ stats = [pools |-> <<PoolEntry(ssc_vols,
                                      Sized(RawVol(1, 1), 20481, 4099))>>]
    /\ stats.pools[1].total_capacity_gb = 2000

====
